---- MODULE Spec2Model ----
(***************************************************************************)
(* File Duplicate Organizer: the interactive surface (src/src/App.tsx) as  *)
(* a state machine over React state, with the backend commands it invokes  *)
(* (scan_folder, delete_files) as operators over a bounded file tree.      *)
(*                                                                         *)
(* Every handler of App.tsx that awaits is split at its await: the part    *)
(* before the await is one action, the continuation after it another.  A   *)
(* continuation reads the state variables of the render in which its       *)
(* handler was started (a closure), so an invocation in flight carries the *)
(* values it captured.                                                     *)
(***************************************************************************)
EXTENDS Integers, Sequences, FiniteSets, Bags, TLC

\* ------------------------------------------------------------------ bounds
\* Number of files of the tree (paths are 1..NumFiles).
NumFiles == 3
\* delete_files invocations issued in one run (all may be in flight together).
MaxDeletes == 1
\* Number of paths the selection helpers are exercised on.
MaxSelFiles == 4

VARIABLES
  tree,          \* path -> [dir, content, hashable, locked]: the files' attributes
  exists,        \* paths currently on disk (not yet moved to the trash)
  folderPath,    \* App.tsx:43
  groups,        \* App.tsx:44
  selectedFiles, \* App.tsx:45
  isScanning,    \* App.tsx:47
  showConfirm,   \* App.tsx:48
  toast,         \* App.tsx:49
  scanComplete,  \* App.tsx:50
  scanMode,      \* App.tsx:52
  scansInFlight, \* scan_folder invocations awaiting their result (App.tsx:120)
  deletesInFlight, \* the bag of delete_files invocations awaiting their result (App.tsx:204)
  deletesIssued, \* history: the number of delete_files invocations so far
  shownFrom,     \* history: the path argument of the scan whose result groups holds
  last           \* history: the continuation or helper that ran last, with what it received

vars == <<tree, exists, folderPath, groups, selectedFiles, isScanning, showConfirm,
          toast, scanComplete, scanMode, scansInFlight, deletesInFlight,
          deletesIssued, shownFrom, last>>

\* ------------------------------------------------------------- the file tree
Paths == 1..NumFiles

\* Directories: R is the parent of A; X cannot be read.
Folders == {"R", "A", "X"}
ReadableRoots == {"R", "A"}
\* Directories the folder dialog returns in the interactive runs.
DialogFolders == {"A", "X"}

\* File contents: byte sequences; two of length 2 and one of length 1.
Contents == {<<1, 2>>, <<2, 1>>, <<2>>}

\* FileRecord.size: the byte count.
Size(p) == Len(tree[p].content)

\* The content digest: the bytes read as a numeral, which no two contents of
\* the bounded domain share (a cryptographic digest, taken as collision free).
RECURSIVE Digest(_)
Digest(c) == IF c = <<>> THEN 1 ELSE Digest(SubSeq(c, 1, Len(c) - 1)) * 3 + c[Len(c)]

\* The digest of a group that was not content-verified (size-only mode).
SizeOnlyDigest == 0

\* Whether directory d lies in the tree rooted at root.
Under(d, root) == d = root \/ (root = "R" /\ d = "A")

\* ------------------------------------------------------------------ helpers
RECURSIVE SetToSeq(_)
SetToSeq(S) ==
  IF S = {} THEN <<>>
  ELSE LET m == CHOOSE x \in S : \A y \in S : x <= y
       IN <<m>> \o SetToSeq(S \ {m})

RemoveAt(s, i) == SubSeq(s, 1, i - 1) \o SubSeq(s, i + 1, Len(s))

\* The paths of the files of a list of groups.
GroupPaths(gs) ==
  UNION {{gs[i].files[j].path : j \in DOMAIN gs[i].files} : i \in DOMAIN gs}

FileInfo(p, h) == [path |-> p, size |-> Size(p), hash |-> h]

\* ------------------------------------------------------------ scan_folder
\* File Walker: every regular file under the root.
Walk(root) == {p \in exists : Under(tree[p].dir, root)}

\* Stage 1: the size buckets with at least 2 members.
SizeBuckets(root) ==
  LET walked == Walk(root)
      bucket(s) == {p \in walked : Size(p) = s}
  IN {bucket(s) : s \in {Size(p) : p \in walked}} \ {b \in SUBSET walked : Cardinality(b) < 2}

\* Stage 2 left out: the bucket as it is.
DigestSubsets_NoRegroup(bucket) == {bucket}

\* Stage 2: a bucket regrouped by digest; a member that cannot be hashed is dropped.
DigestSubsets(bucket) ==
  LET hashed == {p \in bucket : tree[p].hashable}
      sub(d) == {p \in hashed : Digest(tree[p].content) = d}
  IN {sub(d) : d \in {Digest(tree[p].content) : p \in hashed}}

MakeGroup(members, h) ==
  LET any == CHOOSE p \in members : TRUE
      order == SetToSeq(members)
  IN [hash |-> h, size |-> Size(any),
      files |-> [i \in 1..Len(order) |-> FileInfo(order[i], h)]]

GroupBefore(g, h) == g.size < h.size \/ (g.size = h.size /\ g.hash < h.hash)

RECURSIVE SortGroups(_)
SortGroups(G) ==
  IF G = {} THEN <<>>
  ELSE LET m == CHOOSE g \in G : \A h \in G \ {g} : GroupBefore(g, h)
       IN <<m>> \o SortGroups(G \ {m})

\* Grouping Engine: the groups of one scan in the given mode.
GroupingEngine(root, mode) ==
  IF mode = "size_only"
  THEN {MakeGroup(b, SizeOnlyDigest) : b \in SizeBuckets(root)}
  ELSE {MakeGroup(s, Digest(tree[CHOOSE p \in s : TRUE].content)) :
          s \in {t \in UNION {DigestSubsets(b) : b \in SizeBuckets(root)} :
                   Cardinality(t) >= 2}}

\* Scan Coordinator: an error for a root that cannot be read, else the sorted groups.
scan_folder(path, mode) ==
  IF path \notin ReadableRoots
  THEN [ok |-> FALSE, groups |-> <<>>]
  ELSE [ok |-> TRUE, groups |-> SortGroups(GroupingEngine(path, mode))]

\* ------------------------------------------------------------ delete_files
\* Deletion Service, one path: moved to the trash unless it does not exist or
\* cannot be moved.
TrashOne(p, onDisk) == p \in onDisk /\ ~tree[p].locked

\* The batch given up at the first path that fails.
RECURSIVE DeleteEach_StopsAtFailure(_, _, _)
DeleteEach_StopsAtFailure(todo, onDisk, out) ==
  IF todo = <<>> THEN out
  ELSE LET p == Head(todo)
       IN IF TrashOne(p, onDisk)
          THEN DeleteEach_StopsAtFailure(Tail(todo), onDisk \ {p},
                                         [out EXCEPT !.deleted = @ \cup {p}])
          ELSE [out EXCEPT !.failed = @ \cup {p}]

\* Deletion Service: the paths one after the other, each attempted whatever
\* became of the ones before it; out is the DeleteOutcome so far.
RECURSIVE DeleteEach(_, _, _)
DeleteEach(todo, onDisk, out) ==
  IF todo = <<>> THEN out
  ELSE LET p == Head(todo)
       IN IF TrashOne(p, onDisk)
          THEN DeleteEach(Tail(todo), onDisk \ {p},
                          [out EXCEPT !.deleted = @ \cup {p}])
          ELSE DeleteEach(Tail(todo), onDisk,
                          [out EXCEPT !.failed = @ \cup {p}])

delete_files(paths) ==
  DeleteEach(SetToSeq(paths), exists, [deleted |-> {}, failed |-> {}])

\* --------------------------------------------------------------- App.tsx
\* The last step was none of the steps the history records.
NoLast == [op |-> "", paths |-> {}, deleted |-> {}, failed |-> {}, missing |-> {},
           before |-> <<>>]

\* The tree the interactive runs start from.
InitialTree ==
  [p \in Paths |->
     [dir |-> "A",
      content |-> IF p <= 2 THEN <<1, 2>> ELSE <<2, 1>>,
      hashable |-> TRUE,
      locked |-> p = 2]]

Init ==
  /\ tree = InitialTree
  /\ exists = Paths
  /\ folderPath = ""
  /\ groups = <<>>
  /\ selectedFiles = {}
  /\ isScanning = FALSE
  /\ showConfirm = FALSE
  /\ toast = "null"
  /\ scanComplete = FALSE
  /\ scanMode = "strict"
  /\ scansInFlight = <<>>
  /\ deletesInFlight = EmptyBag
  /\ deletesIssued = 0
  /\ shownFrom = ""
  /\ last = NoLast

\* The confirm dialog's overlay covers the window: nothing under it is clicked.
Interactive == ~showConfirm

\* pickFolder, after the dialog returned a directory.
PickFolder(selected) ==
  /\ Interactive
  /\ folderPath' = selected
  /\ scanComplete' = FALSE
  /\ groups' = <<>>
  /\ selectedFiles' = {}
  /\ shownFrom' = ""
  /\ last' = NoLast
  /\ UNCHANGED <<deletesIssued, tree, exists, isScanning, showConfirm, toast, scanMode,
                 scansInFlight, deletesInFlight>>

\* The mode select's onChange.
SetScanMode(m) ==
  /\ Interactive
  /\ m # scanMode
  /\ scanMode' = m
  /\ last' = NoLast
  /\ UNCHANGED <<deletesIssued, tree, exists, folderPath, groups, selectedFiles, isScanning,
                 showConfirm, toast, scanComplete, scansInFlight, deletesInFlight,
                 shownFrom>>

\* The scan button left enabled during a scan.
ScanButtonDisabled_IgnoresScanning == folderPath = ""

\* The scan button's disabled attribute.
ScanButtonDisabled == folderPath = "" \/ isScanning

\* startScan up to its await.
StartScan ==
  /\ Interactive
  /\ ~ScanButtonDisabled
  /\ folderPath # ""
  /\ isScanning' = TRUE
  /\ scanComplete' = FALSE
  /\ groups' = <<>>
  /\ selectedFiles' = {}
  /\ scansInFlight' = Append(scansInFlight, [path |-> folderPath, mode |-> scanMode])
  /\ shownFrom' = ""
  /\ last' = NoLast
  /\ UNCHANGED <<deletesIssued, tree, exists, folderPath, showConfirm, toast, scanMode, deletesInFlight>>

\* startScan after its await, the invocation resolved: the try block's remainder
\* and the finally block.
ScanResolve(i) ==
  LET req == scansInFlight[i]
      res == scan_folder(req.path, req.mode)
  IN /\ res.ok
     /\ groups' = res.groups
     /\ scanComplete' = TRUE
     /\ toast' = IF Len(res.groups) = 0 THEN "noDuplicates" ELSE toast
     /\ isScanning' = FALSE
     /\ scansInFlight' = RemoveAt(scansInFlight, i)
     /\ shownFrom' = req.path
     /\ last' = NoLast
     /\ UNCHANGED <<deletesIssued, tree, exists, folderPath, selectedFiles, showConfirm, scanMode,
                    deletesInFlight>>

\* startScan after its await, the invocation rejected: the catch and finally blocks.
ScanReject(i) ==
  LET req == scansInFlight[i]
      res == scan_folder(req.path, req.mode)
  IN /\ ~res.ok
     /\ toast' = "scanError"
     /\ isScanning' = FALSE
     /\ scansInFlight' = RemoveAt(scansInFlight, i)
     /\ last' = [NoLast EXCEPT !.op = "scanFailed"]
     /\ UNCHANGED <<deletesIssued, tree, exists, folderPath, groups, selectedFiles, showConfirm,
                    scanComplete, scanMode, deletesInFlight, shownFrom>>

\* The checkbox of a displayed file.
toggleFile(path) ==
  /\ Interactive
  /\ path \in GroupPaths(groups)
  /\ selectedFiles' = IF path \in selectedFiles THEN selectedFiles \ {path}
                                                ELSE selectedFiles \cup {path}
  /\ last' = NoLast
  /\ UNCHANGED <<deletesIssued, tree, exists, folderPath, groups, isScanning, showConfirm, toast,
                 scanComplete, scanMode, scansInFlight, deletesInFlight, shownFrom>>

\* The action bar is rendered only while groups are displayed.
ActionBarShown == Len(groups) > 0

selectAll ==
  /\ Interactive
  /\ ActionBarShown
  /\ selectedFiles' = GroupPaths(groups)
  /\ last' = NoLast
  /\ UNCHANGED <<deletesIssued, tree, exists, folderPath, groups, isScanning, showConfirm, toast,
                 scanComplete, scanMode, scansInFlight, deletesInFlight, shownFrom>>

\* The loop with >= for >: the last of the largest.
RECURSIVE MaxSizeFileIndex_LastOfLargest(_, _)
MaxSizeFileIndex_LastOfLargest(files, n) ==
  IF n = 1 THEN 1
  ELSE LET best == MaxSizeFileIndex_LastOfLargest(files, n - 1)
       IN IF files[n].size >= files[best].size THEN n ELSE best

\* The loop of selectAllButOne: the index of the file to keep among files[1..n],
\* the first of the largest.
RECURSIVE MaxSizeFileIndex(_, _)
MaxSizeFileIndex(files, n) ==
  IF n = 1 THEN 1
  ELSE LET best == MaxSizeFileIndex(files, n - 1)
       IN IF files[n].size > files[best].size THEN n ELSE best

\* The paths selectAllButOne selects.
PathsToSelect(gs) ==
  UNION {IF Len(gs[i].files) > 1
         THEN {gs[i].files[j].path :
                 j \in DOMAIN gs[i].files \ {MaxSizeFileIndex(gs[i].files, Len(gs[i].files))}}
         ELSE {} : i \in DOMAIN gs}

selectAllButOne ==
  /\ Interactive
  /\ ActionBarShown
  /\ selectedFiles' = PathsToSelect(groups)
  /\ last' = [NoLast EXCEPT !.op = "selectAllButOne"]
  /\ UNCHANGED <<deletesIssued, tree, exists, folderPath, groups, isScanning, showConfirm, toast,
                 scanComplete, scanMode, scansInFlight, deletesInFlight, shownFrom>>

deselectAll ==
  /\ Interactive
  /\ ActionBarShown
  /\ selectedFiles' = {}
  /\ last' = NoLast
  /\ UNCHANGED <<deletesIssued, tree, exists, folderPath, groups, isScanning, showConfirm, toast,
                 scanComplete, scanMode, scansInFlight, deletesInFlight, shownFrom>>

\* The delete button: enabled while something is selected; opens the confirm dialog.
RequestDelete ==
  /\ Interactive
  /\ ActionBarShown
  /\ Cardinality(selectedFiles) # 0
  /\ showConfirm' = TRUE
  /\ last' = NoLast
  /\ UNCHANGED <<deletesIssued, tree, exists, folderPath, groups, selectedFiles, isScanning, toast,
                 scanComplete, scanMode, scansInFlight, deletesInFlight, shownFrom>>

\* The confirm dialog's cancel button, or a click on its overlay.
CancelConfirm ==
  /\ showConfirm
  /\ showConfirm' = FALSE
  /\ last' = NoLast
  /\ UNCHANGED <<deletesIssued, tree, exists, folderPath, groups, selectedFiles, isScanning, toast,
                 scanComplete, scanMode, scansInFlight, deletesInFlight, shownFrom>>

\* executeDelete up to its await: the invocation carries the paths, and the
\* continuation will read the groups of this render.
ExecuteDelete ==
  /\ showConfirm
  /\ deletesIssued < MaxDeletes
  /\ showConfirm' = FALSE
  /\ deletesInFlight' = deletesInFlight (+)
        SetToBag({[paths |-> selectedFiles, groups |-> groups, shownFrom |-> shownFrom]})
  /\ last' = NoLast
  /\ deletesIssued' = deletesIssued + 1
  /\ UNCHANGED <<tree, exists, folderPath, groups, selectedFiles, isScanning, toast,
                 scanComplete, scanMode, scansInFlight, shownFrom>>

\* The deleted files removed, the groups left with fewer than 2 files kept.
UpdatedGroups_KeepsSmallGroups(gs, deletedSet) ==
  [i \in 1..Len(gs) |->
     [gs[i] EXCEPT !.files = SelectSeq(gs[i].files, LAMBDA f : f.path \notin deletedSet)]]

\* The groups executeDelete keeps: the deleted files removed, then the groups
\* with fewer than 2 files left dropped.
UpdatedGroups(gs, deletedSet) ==
  SelectSeq(
    [i \in 1..Len(gs) |->
       [gs[i] EXCEPT !.files = SelectSeq(gs[i].files, LAMBDA f : f.path \notin deletedSet)]],
    LAMBDA g : Len(g.files) >= 2)

\* executeDelete after its await, the invocation resolved.
DeleteResolve(req) ==
  LET result == delete_files(req.paths)
  IN /\ exists' = exists \ result.deleted
     /\ groups' = UpdatedGroups(req.groups, result.deleted)
     /\ selectedFiles' = {}
     /\ toast' = IF Cardinality(result.failed) > 0 THEN "deletedSomeFailed" ELSE "deleted"
     /\ deletesInFlight' = deletesInFlight (-) SetToBag({req})
     /\ shownFrom' = req.shownFrom
     /\ last' = [op |-> "deleteDone", paths |-> req.paths, deleted |-> result.deleted,
                 failed |-> result.failed, missing |-> req.paths \ exists,
                 before |-> groups]
     /\ UNCHANGED <<deletesIssued, tree, folderPath, isScanning, showConfirm, scanComplete, scanMode,
                    scansInFlight>>

\* showToast's timer.
ToastTimeout ==
  /\ toast # "null"
  /\ toast' = "null"
  /\ last' = NoLast
  /\ UNCHANGED <<deletesIssued, tree, exists, folderPath, groups, selectedFiles, isScanning,
                 showConfirm, scanComplete, scanMode, scansInFlight, deletesInFlight,
                 shownFrom>>

\* executeDelete after its await, the invocation rejected as a whole: the catch block.
DeleteReject(req) ==
  /\ toast' = "deleteError"
  /\ deletesInFlight' = deletesInFlight (-) SetToBag({req})
  /\ last' = NoLast
  /\ UNCHANGED <<deletesIssued, tree, exists, folderPath, groups, selectedFiles,
                 isScanning, showConfirm, scanComplete, scanMode, scansInFlight,
                 shownFrom>>

Next ==
  \/ \E f \in DialogFolders : PickFolder(f)
  \/ \E m \in {"strict", "size_only"} : SetScanMode(m)
  \/ StartScan
  \/ \E i \in DOMAIN scansInFlight : ScanResolve(i)
  \/ \E i \in DOMAIN scansInFlight : ScanReject(i)
  \/ \E p \in Paths : toggleFile(p)
  \/ selectAll
  \/ selectAllButOne
  \/ deselectAll
  \/ RequestDelete
  \/ CancelConfirm
  \/ ExecuteDelete
  \/ \E req \in BagToSet(deletesInFlight) : DeleteResolve(req)
  \/ \E req \in BagToSet(deletesInFlight) : DeleteReject(req)
  \/ ToastTimeout

Spec == Init /\ [][Next]_vars

\* ------------------------------------------------- scan_folder on any tree
\* The trees of NumFiles files: each file in A or in its parent R, with any
\* content, hashable or not.
ScanTrees ==
  [Paths -> [dir : {"A", "R"}, content : Contents, hashable : BOOLEAN, locked : {FALSE}]]

InitScan ==
  /\ tree \in ScanTrees
  /\ exists = Paths
  /\ folderPath = ""
  /\ groups = <<>>
  /\ selectedFiles = {}
  /\ isScanning = FALSE
  /\ showConfirm = FALSE
  /\ toast = "null"
  /\ scanComplete = FALSE
  /\ scanMode = "strict"
  /\ scansInFlight = <<>>
  /\ deletesInFlight = EmptyBag
  /\ deletesIssued = 0
  /\ shownFrom = ""
  /\ last = NoLast

\* One scan from the folder dialog to the result: pickFolder, the mode select,
\* startScan and its continuation, with nothing in between.
ScanCall(root, mode) ==
  LET res == scan_folder(root, mode)
  IN /\ folderPath = ""
     /\ folderPath' = root
     /\ scanMode' = mode
     /\ groups' = res.groups
     /\ scanComplete' = res.ok
     /\ toast' = IF ~res.ok THEN "scanError"
                ELSE IF Len(res.groups) = 0 THEN "noDuplicates" ELSE toast
     /\ shownFrom' = IF res.ok THEN root ELSE ""
     /\ last' = IF res.ok THEN NoLast ELSE [NoLast EXCEPT !.op = "scanFailed"]
     /\ UNCHANGED <<tree, exists, selectedFiles, isScanning, showConfirm, scansInFlight,
                    deletesInFlight, deletesIssued>>

NextScan == \E root \in Folders, mode \in {"strict", "size_only"} : ScanCall(root, mode)

SpecScan == InitScan /\ [][NextScan]_vars

\* ------------------------------------------------ delete_files on any disk
\* The trees of NumFiles files of which any may be impossible to move to the trash.
DeleteTrees ==
  [Paths -> [dir : {"A"}, content : {<<1, 2>>}, hashable : {TRUE}, locked : BOOLEAN]]

InitDel ==
  /\ tree \in DeleteTrees
  /\ exists \in SUBSET Paths
  /\ folderPath = ""
  /\ groups = <<>>
  /\ selectedFiles = {}
  /\ isScanning = FALSE
  /\ showConfirm = FALSE
  /\ toast = "null"
  /\ scanComplete = FALSE
  /\ scanMode = "strict"
  /\ scansInFlight = <<>>
  /\ deletesInFlight = EmptyBag
  /\ deletesIssued = 0
  /\ shownFrom = ""
  /\ last = NoLast

\* One delete_files request and its outcome.
DeleteCall(paths) ==
  LET result == delete_files(paths)
  IN /\ deletesIssued < MaxDeletes
     /\ deletesIssued' = deletesIssued + 1
     /\ exists' = exists \ result.deleted
     /\ last' = [op |-> "deleteDone", paths |-> paths, deleted |-> result.deleted,
                 failed |-> result.failed, missing |-> paths \ exists,
                 before |-> groups]
     /\ UNCHANGED <<tree, folderPath, groups, selectedFiles, isScanning, showConfirm,
                    toast, scanComplete, scanMode, scansInFlight, deletesInFlight,
                    shownFrom>>

NextDel == \E paths \in SUBSET Paths : DeleteCall(paths)

SpecDel == InitDel /\ [][NextDel]_vars

\* ------------------------------------------- the selection helpers on any groups
SelPaths == 1..MaxSelFiles

\* File sizes the selection helpers are exercised on.
SelSizes == {1, 2}

\* The sequences of distinct paths.
PathOrders ==
  {s \in UNION {[1..n -> SelPaths] : n \in 2..MaxSelFiles} :
     \A i, j \in DOMAIN s : i # j => s[i] # s[j]}

SelGroup(order, sizes, from, to) ==
  [hash |-> SizeOnlyDigest, size |-> sizes[from],
   files |-> [k \in 1..(to - from + 1) |->
                [path |-> order[from + k - 1], size |-> sizes[from + k - 1],
                 hash |-> SizeOnlyDigest]]]

\* Lists of one or two groups of at least 2 files each, no path in two places,
\* every file with a size of its own.
SelGroupLists ==
  UNION {UNION {
    {<<SelGroup(order, sizes, 1, Len(order))>>} \cup
    {<<SelGroup(order, sizes, 1, cut), SelGroup(order, sizes, cut + 1, Len(order))>> :
       cut \in 2..(Len(order) - 2)}
    : sizes \in [DOMAIN order -> SelSizes]} : order \in PathOrders}

InitSel ==
  /\ tree = [p \in SelPaths |->
               [dir |-> "A", content |-> <<1, 2>>, hashable |-> TRUE, locked |-> FALSE]]
  /\ exists = SelPaths
  /\ folderPath = "A"
  /\ groups \in SelGroupLists
  /\ selectedFiles = {}
  /\ isScanning = FALSE
  /\ showConfirm = FALSE
  /\ toast = "null"
  /\ scanComplete = TRUE
  /\ scanMode = "size_only"
  /\ scansInFlight = <<>>
  /\ deletesInFlight = EmptyBag
  /\ deletesIssued = 0
  /\ shownFrom = "A"
  /\ last = NoLast

NextSel == selectAllButOne \/ selectAll \/ deselectAll

SpecSel == InitSel /\ [][NextSel]_vars

\* ------------------------------------------------------------------ claims
\* The paths of one group.
PathsOf(g) == {g.files[j].path : j \in DOMAIN g.files}

\* Whether p and q are files of one displayed group.
SameGroup(p, q) == \E i \in DOMAIN groups : {p, q} \subseteq PathsOf(groups[i])

\* C1: every displayed DuplicateGroup has at least 2 files, whatever scans (in
\* either mode) and deletions came before.
C1_GroupsHaveTwoFiles == \A i \in DOMAIN groups : Len(groups[i].files) >= 2

\* C1, its case: a deletion has just left a group with fewer than 2 files, and
\* the group is gone from the display.
C1_GroupDropped ==
  /\ last.op = "deleteDone"
  /\ last.deleted # {}
  /\ Len(groups) < Len(last.before)

\* A strict scan has just returned.
ScannedStrict == scanComplete /\ scanMode = "strict"

C3_DeleteOutcomeComplete ==
  last.op = "deleteDone" =>
    /\ Cardinality(last.deleted) + Cardinality(last.failed) = Cardinality(last.paths)
    /\ last.missing \subseteq last.failed
    /\ last.deleted \cap last.failed = {}
    /\ last.deleted \cup last.failed = last.paths
    /\ \A p \in last.paths \ last.missing : ~tree[p].locked => p \in last.deleted

\* C3, its case: an outcome with a path that did not exist and a path deleted
\* after it.
C3_DeletedAfterMissing ==
  /\ last.op = "deleteDone"
  /\ \E p \in last.missing : \E q \in last.deleted : p < q

\* C4: at most one scan_folder invocation is outstanding, and one is outstanding
\* only while isScanning is true, so that the scan button cannot issue another.
C4_OneScanInFlight ==
  /\ Len(scansInFlight) <= 1
  /\ Len(scansInFlight) = 1 => (isScanning /\ ScanButtonDisabled)

\* C4, its case: a scan is outstanding and the user has since picked another
\* folder and another mode.
C4_ScanOutstandingAfterEvents ==
  /\ Len(scansInFlight) = 1
  /\ folderPath # scansInFlight[1].path
  /\ scanMode # scansInFlight[1].mode

\* C5: when the scan_folder invocation has just failed, groups is empty,
\* scanComplete is false, the error toast is shown and isScanning is false.
C5_FailedScanShowsNothing ==
  last.op = "scanFailed" =>
    /\ groups = <<>>
    /\ ~scanComplete
    /\ toast = "scanError"
    /\ ~isScanning

\* C6: when a delete_files request has just completed, no displayed path is one
\* it deleted, every failed path that was displayed is still displayed unless
\* its group fell below 2 files, and every group that was displayed and keeps at
\* least 2 files that were not deleted is displayed with exactly those files.
C6_DisplayMinusDeleted ==
  last.op = "deleteDone" =>
    /\ GroupPaths(groups) \cap last.deleted = {}
    /\ \A i \in DOMAIN last.before :
         LET kept == PathsOf(last.before[i]) \ last.deleted
         IN Cardinality(kept) >= 2 =>
              /\ \E k \in DOMAIN groups : PathsOf(groups[k]) = kept
              /\ (last.failed \cap kept) \subseteq GroupPaths(groups)

\* C8: every selected path is the path of a file of a displayed group.
C8_SelectionIsDisplayed == selectedFiles \subseteq GroupPaths(groups)

\* C9: whenever scanComplete is true, or groups are displayed, they are the
\* result of a scan of the current folderPath.
C9_GroupsOfCurrentFolder ==
  (scanComplete \/ groups # <<>>) => shownFrom = folderPath

\* C10: while a scan is in flight the displayed groups list is empty.
C10_NoGroupsWhileScanning == isScanning => groups = <<>>

\* The index of the one file of group g that is not selected, 0 when there is
\* none or more than one.
Unselected(g) ==
  LET U == {j \in DOMAIN g.files : g.files[j].path \notin selectedFiles}
  IN IF Cardinality(U) = 1 THEN CHOOSE j \in U : TRUE ELSE 0

\* C7: after selectAllButOne every displayed group has exactly one unselected
\* file, of the largest size in its group and the first of that size, so that
\* deleting the selection leaves a file of every group.
C7_KeepsFirstLargest ==
  last.op = "selectAllButOne" =>
    \A i \in DOMAIN groups :
      LET fs == groups[i].files
          u == Unselected(groups[i])
      IN /\ u # 0
         /\ \A k \in DOMAIN fs : fs[k].size <= fs[u].size
         /\ \A k \in 1..(u - 1) : fs[k].size < fs[u].size
         /\ ~(PathsOf(groups[i]) \subseteq delete_files(selectedFiles).deleted)

\* C7, its case: selectAllButOne over two groups, one whose largest file is not
\* its first, one with two files of the largest size.
C7_TwoGroupsTieAndLate ==
  /\ last.op = "selectAllButOne"
  /\ Len(groups) = 2
  /\ \E i \in DOMAIN groups : Unselected(groups[i]) > 1
  /\ \E i \in DOMAIN groups :
       \E j, k \in DOMAIN groups[i].files :
         /\ j < k
         /\ groups[i].files[j].size = groups[i].files[k].size
         /\ \A m \in DOMAIN groups[i].files :
              groups[i].files[m].size <= groups[i].files[j].size
====
